---- MODULE Spec2Model ----
(***************************************************************************)
(* A model of Genie's text front end and reference-audio cache:            *)
(*   - Chinese/Split.py        split_chinese_text                          *)
(*   - Japanese/JapaneseG2P.py JapaneseG2P, japanese_to_phones             *)
(*   - Chinese/ChineseG2P.py   ChineseG2P, chinese_to_phones               *)
(*   - Audio/ReferenceAudio.py ReferenceAudio (__new__, __init__, set_text)*)
(* Strings are sequences of characters; a character is a TLA+ string that  *)
(* names the character (or its class, for non-ASCII ranges).               *)
(***************************************************************************)
EXTENDS Integers, Sequences, FiniteSets, TLC

VARIABLES
    \* split_chinese_text
    long_text, raw_sentences, final_sentences, split_pc,
    \* JapaneseG2P._pyopenjtalk_g2p_prosody: the label loop
    labels, n, phones,
    \* JapaneseG2P.g2p: its arguments, its result and its calls of the
    \* collaborators
    g2p_text, with_prosody, processed_phonemes, frontend_calls, pinyin_calls,
    g2p_pc,
    \* chinese_to_phones / japanese_to_phones: the text, the phonemizer's
    \* symbols, the ids (or the exception raised)
    enc_text, enc_phones, enc_ids, enc_error, enc_pc,
    \* ReferenceAudio: the class's cache, the entry objects, and the last
    \* request with its outcome
    prompt_cache, heap, use_order, failures, req

varsSplit == <<long_text, raw_sentences, final_sentences, split_pc>>

varsProsody == <<labels, n, phones>>

varsG2P == <<g2p_text, with_prosody, processed_phonemes, frontend_calls,
             pinyin_calls, g2p_pc>>

varsEnc == <<enc_text, enc_phones, enc_ids, enc_error, enc_pc>>

varsCache == <<prompt_cache, heap, use_order, failures, req>>

vars == <<varsSplit, varsProsody, varsG2P, varsEnc, varsCache>>

(***************************************************************************)
(* Each part of the program is checked under a specification of its own;   *)
(* the variables of the other parts then rest in their idle values.        *)
(***************************************************************************)
IdleSplit ==
    /\ long_text = <<>>
    /\ raw_sentences = <<>>
    /\ final_sentences = <<>>
    /\ split_pc = "idle"

IdleProsody ==
    /\ labels = <<>>
    /\ n = 0
    /\ phones = <<>>

IdleG2P ==
    /\ g2p_text = <<>>
    /\ with_prosody = TRUE
    /\ processed_phonemes = <<>>
    /\ frontend_calls = <<>>
    /\ pinyin_calls = <<>>
    /\ g2p_pc = "idle"

IdleEnc ==
    /\ enc_text = <<>>
    /\ enc_phones = <<>>
    /\ enc_ids = <<>>
    /\ enc_error = "none"
    /\ enc_pc = "idle"

\* no request made yet
NoRequest ==
    [op |-> "none", key |-> 0, text |-> <<>>, language |-> "",
     raised |-> "none", hit |-> FALSE, returned |-> <<>>, calls |-> {},
     evicted |-> 0]

IdleCache ==
    /\ prompt_cache = <<>>
    /\ heap = <<>>
    /\ use_order = <<>>
    /\ failures = 0
    /\ req = NoRequest

(***************************************************************************)
(* Generic sequence helpers (Python list / str primitives).                *)
(***************************************************************************)
RECURSIVE Flatten(_)
\* "".join(chunks)
Flatten(chunks) ==
    IF chunks = <<>> THEN <<>> ELSE Head(chunks) \o Flatten(Tail(chunks))

RECURSIVE SeqsUpTo(_, _)
\* all sequences over S of length at most k
SeqsUpTo(S, k) ==
    IF k = 0 THEN {<<>>}
    ELSE LET shorter == SeqsUpTo(S, k - 1)
         IN  shorter \cup {Append(s, x) : s \in shorter, x \in S}

Range(s) == {s[i] : i \in 1..Len(s)}

(***************************************************************************)
(* Chinese/Split.py                                                        *)
(* Characters: "c" a valid character (CJK ideograph, ASCII letter, digit), *)
(* "T" a sentence terminator, " " a whitespace character, "p" any other    *)
(* character (e.g. an ASCII full stop).                                    *)
(***************************************************************************)
MIN_SENTENCE_LENGTH == 5

SENTENCE_TERMINATORS == {"T"}

\* the whitespace characters str.strip() removes
Whitespace == {" "}

\* VALID_CHAR_PATTERN
IsValidChar(ch) == ch = "c"

\* Bound: an input text is a concatenation of at most MaxPieces pieces.
MaxPieces == 5

SplitPieces == {<<"c">>, <<"c", "c", "c", "c", "c">>, <<"T">>, <<" ">>, <<"p">>}

\* the texts of at most max pieces
SplitInputs(max) == {Flatten(ps) : ps \in SeqsUpTo(SplitPieces, max)}

RECURSIVE get_valid_text_length(_)
get_valid_text_length(sentence) ==
    IF sentence = <<>> THEN 0
    ELSE (IF IsValidChar(Head(sentence)) THEN 1 ELSE 0)
         + get_valid_text_length(Tail(sentence))

RECURSIVE lstrip(_)
lstrip(s) ==
    IF s # <<>> /\ Head(s) \in Whitespace THEN lstrip(Tail(s)) ELSE s

RECURSIVE rstrip(_)
rstrip(s) ==
    IF s # <<>> /\ s[Len(s)] \in Whitespace
    THEN rstrip(SubSeq(s, 1, Len(s) - 1)) ELSE s

\* a mutant of strip: only leading whitespace is removed
strip_leading_only(s) == lstrip(s)

\* str.strip()
strip(s) == rstrip(lstrip(s))

RECURSIVE re_split_after(_, _, _)
\* re.split('(?<=[terminators])', text): the pattern matches the empty string
\* after every terminator, the end of the text included; cur is the piece
\* being read
re_split_after(terminators, text, cur) ==
    IF text = <<>> THEN <<cur>>
    ELSE IF Head(text) \in terminators
         THEN <<Append(cur, Head(text))>>
              \o re_split_after(terminators, Tail(text), <<>>)
         ELSE re_split_after(terminators, Tail(text), Append(cur, Head(text)))

\* [s.strip() for s in raw_sentences if s.strip()]
StripAndFilter(pieces) ==
    LET stripped == [i \in 1..Len(pieces) |-> strip(pieces[i])]
    IN  SelectSeq(stripped, LAMBDA s : s # <<>>)

\* a mutant of the merge test: a raw chunk is merged when it is *at most* the
\* minimum length
MergeStepOffByOne(final, sentence) ==
    IF final # <<>> /\ get_valid_text_length(sentence) <= MIN_SENTENCE_LENGTH
    THEN [final EXCEPT ![Len(final)] = @ \o sentence]
    ELSE Append(final, sentence)

\* one iteration of the merge loop
MergeStep(final, sentence) ==
    IF final # <<>> /\ get_valid_text_length(sentence) < MIN_SENTENCE_LENGTH
    THEN [final EXCEPT ![Len(final)] = @ \o sentence]
    ELSE Append(final, sentence)

RECURSIVE MergeLoop(_, _)
MergeLoop(final, raw) ==
    IF raw = <<>> THEN final
    ELSE MergeLoop(MergeStep(final, Head(raw)), Tail(raw))

\* the raw chunks the merge loop reads
split_raw_sentences(text) ==
    StripAndFilter(re_split_after(SENTENCE_TERMINATORS, text, <<>>))

split_chinese_text(text) ==
    IF text = <<>> THEN <<>>
    ELSE LET raw == split_raw_sentences(text)
         IN  IF raw = <<>>
             THEN (IF strip(text) # <<>> THEN <<text>> ELSE <<>>)
             ELSE MergeLoop(<<>>, raw)

(***************************************************************************)
(* Japanese/JapaneseG2P.py: prosody symbols from phonetic-context labels.  *)
(* A label is read only through regular expressions, so it is modelled by  *)
(* what each pattern finds in it: p3 (the text between "-" and "+") and,   *)
(* for each numeric pattern, <<>> when the pattern has no match in the     *)
(* label and <<v>> when its group captures the number v.                   *)
(*   a1: /A:([0-9\-]+)\+   a2: \+(\d+)\+   a3: \+(\d+)/                    *)
(*   f1: /F:(\d+)_         e3: !(\d+)_                                     *)
(* A symbol is a string, i.e. a sequence of characters.                    *)
(***************************************************************************)
SIL == <<"s", "i", "l">>
PAU == <<"p", "a", "u">>

\* s in t, for Python strings
IsSubstr(s, t) ==
    \E i \in 0..(Len(t) - Len(s)) : SubSeq(t, i + 1, i + Len(s)) = s

UpperToLower ==
    [A |-> "a", E |-> "e", I |-> "i", O |-> "o", U |-> "u", N |-> "n"]

\* str.lower()
Lower(s) ==
    [i \in 1..Len(s) |->
        IF s[i] \in DOMAIN UpperToLower THEN UpperToLower[s[i]] ELSE s[i]]

\* the value returned when a pattern has no match
ABSENT_FEATURE == -50

\* JapaneseG2P._numeric_feature_by_regex, on what the pattern found
numeric_feature_by_regex(found) ==
    IF found # <<>> THEN found[1] ELSE ABSENT_FEATURE

\* the label's p3 after "if p3 in 'AEIOU': p3 = p3.lower()"
LabelP3(lab) ==
    IF IsSubstr(lab.p3, <<"A", "E", "I", "O", "U">>) THEN Lower(lab.p3)
    ELSE lab.p3

\* the a2 pattern on labels[i + 1], or on "" after the last label
A2Next(labs, i) ==
    numeric_feature_by_regex(IF i + 1 <= Len(labs) THEN labs[i + 1].a2 ELSE <<>>)

\* the if/elif chain that picks the prosody marker of label i (1-based):
\* <<marker>> or <<>>
ProsodyMarker(labs, i) ==
    LET p3 == LabelP3(labs[i])
        a1 == numeric_feature_by_regex(labs[i].a1)
        a2 == numeric_feature_by_regex(labs[i].a2)
        a3 == numeric_feature_by_regex(labs[i].a3)
        f1 == numeric_feature_by_regex(labs[i].f1)
        a2_next == A2Next(labs, i)
    IN  IF a3 = 1 /\ a2_next = 1
           /\ IsSubstr(p3, <<"a", "e", "i", "o", "u", "A", "E", "I", "O", "U",
                             "N", "c", "l">>)
        THEN << <<"#">> >>
        ELSE IF a1 = 0 /\ a2_next = a2 + 1 /\ a2 # f1
        THEN << <<"]">> >>
        ELSE IF a2 = 1 /\ a2_next = 2
        THEN << <<"[">> >>
        ELSE <<>>

\* the symbols one iteration of the label loop appends, for label i (1-based)
LabelPhones(labs, i) ==
    LET p3 == LabelP3(labs[i])
    IN  IF p3 = SIL
        THEN IF i = 1 THEN << <<"^">> >>
             ELSE IF i = Len(labs)
             THEN (IF numeric_feature_by_regex(labs[i].e3) = 1
                   THEN << <<"?">> >> ELSE << <<"$">> >>)
             ELSE <<>>
        ELSE IF p3 = PAU THEN << <<"_">> >>
        ELSE <<p3>> \o ProsodyMarker(labs, i)

RECURSIVE ProsodyFrom(_, _)
ProsodyFrom(labs, i) ==
    IF i > Len(labs) THEN <<>>
    ELSE LabelPhones(labs, i) \o ProsodyFrom(labs, i + 1)

\* JapaneseG2P._pyopenjtalk_g2p_prosody, given the front end's labels
pyopenjtalk_g2p_prosody(labs) == ProsodyFrom(labs, 1)

\* Bound: the number of labels of an input label stream.
MaxLabels == 2

NoMatch == <<>>

PhoneLabels ==
    [p3 : {<<"a">>, <<"k">>}, a1 : {NoMatch, <<0>>},
     a2 : {NoMatch, <<1>>, <<2>>}, a3 : {NoMatch, <<1>>},
     f1 : {NoMatch, <<2>>}, e3 : {NoMatch}]

SilenceLabels ==
    [p3 : {SIL}, a1 : {NoMatch}, a2 : {NoMatch, <<1>>, <<2>>}, a3 : {NoMatch},
     f1 : {NoMatch}, e3 : {NoMatch, <<1>>}]

PauseLabels ==
    [p3 : {PAU}, a1 : {NoMatch}, a2 : {NoMatch, <<1>>, <<2>>}, a3 : {NoMatch},
     f1 : {NoMatch}, e3 : {NoMatch}]

\* the label streams of at most max labels
LabelInputs(max) ==
    SeqsUpTo(PhoneLabels \cup SilenceLabels \cup PauseLabels, max)

InitProsody ==
    /\ labels \in LabelInputs(MaxLabels)
    /\ n = 0
    /\ phones = <<>>
    /\ IdleSplit /\ IdleG2P /\ IdleEnc /\ IdleCache

\* one iteration of "for n, lab_curr in enumerate(labels)"
ProsodyLabelStep ==
    /\ n < Len(labels)
    /\ phones' = phones \o LabelPhones(labels, n + 1)
    /\ n' = n + 1
    /\ UNCHANGED <<labels, varsSplit, varsG2P, varsEnc, varsCache>>

NextProsody == ProsodyLabelStep

SpecProsody == InitProsody /\ [][NextProsody]_vars

(***************************************************************************)
(* Japanese/JapaneseG2P.py: JapaneseG2P.g2p.                               *)
(* Characters of a text: "KANA" a kana character, "KANJI" an ideograph in  *)
(* U+4E00..U+9FA5 (matched by _CHINESE_CHARACTERS_RE and by                *)
(* _JAPANESE_CHARACTERS_RE), "A" and "a" ASCII letters, "%" the percent    *)
(* sign, "!" an ASCII mark of _CONSECUTIVE_PUNCTUATION_RE, "FWCOMMA" the   *)
(* full-width comma, " " a space.                                          *)
(***************************************************************************)
\* _CHINESE_CHARACTERS_RE
ChineseChars == {"KANJI"}

\* _JAPANESE_CHARACTERS_RE; every other character matches _JAPANESE_MARKS_RE
JapaneseChars == {"KANA", "KANJI", "A", "a"}

\* the characters of _CONSECUTIVE_PUNCTUATION_RE
ConsecutivePunctuation == {",", ".", "/", "?", "!", "~", "ELLIPSIS", "NAKAGURO"}

\* _SYMBOLS_TO_JAPANESE: both percent signs become five katakana characters
PercentReading == <<"KANA", "KANA", "KANA", "KANA", "KANA">>

is_chinese(text) == \E i \in 1..Len(text) : text[i] \in ChineseChars

RECURSIVE ReplacePercent(_)
ReplacePercent(text) ==
    IF text = <<>> THEN <<>>
    ELSE (IF Head(text) \in {"%", "FWPERCENT"} THEN PercentReading
          ELSE <<Head(text)>>) \o ReplacePercent(Tail(text))

\* _CONSECUTIVE_PUNCTUATION_RE.sub(r"\1", text): a run of one repeated mark
\* of the set is cut to one occurrence
CollapsePunctuation(text) ==
    SelectSeq([i \in 1..Len(text) |->
                  IF i > 1 /\ text[i] = text[i - 1]
                     /\ text[i] \in ConsecutivePunctuation
                  THEN "" ELSE text[i]],
              LAMBDA ch : ch # "")

\* JapaneseG2P._text_normalize
text_normalize(text) == Lower(CollapsePunctuation(ReplacePercent(text)))

RECURSIVE re_split_at(_, _, _)
\* re.split of a pattern that matches one character of seps: the separators
\* are dropped and empty pieces are kept
re_split_at(seps, text, cur) ==
    IF text = <<>> THEN <<cur>>
    ELSE IF Head(text) \in seps
         THEN <<cur>> \o re_split_at(seps, Tail(text), <<>>)
         ELSE re_split_at(seps, Tail(text), Append(cur, Head(text)))

\* _JAPANESE_MARKS_RE.split(norm_text)
JapaneseSegments(norm_text) ==
    re_split_at(Range(norm_text) \ JapaneseChars, norm_text, <<>>)

\* _JAPANESE_MARKS_RE.findall(norm_text)
JapaneseMarks(norm_text) ==
    SelectSeq(norm_text, LAMBDA ch : ch \notin JapaneseChars)

\* rep_map of _post_replace_phoneme (the same table in both phonemizers)
rep_map ==
    [ph \in {<<"FWCOLON">>, <<"FWSEMICOLON">>, <<"FWCOMMA">>, <<"FWSTOP">>,
             <<"FWBANG">>, <<"FWQUESTION">>, <<"NEWLINE">>, <<"MIDDOT">>,
             <<"IDEOCOMMA">>, <<".", ".", ".">>} |->
        CASE ph \in {<<"FWCOLON">>, <<"FWSEMICOLON">>, <<"FWCOMMA">>,
                     <<"MIDDOT">>, <<"IDEOCOMMA">>} -> <<",">>
          [] ph \in {<<"FWSTOP">>, <<"NEWLINE">>} -> <<".">>
          [] ph = <<"FWBANG">> -> <<"!">>
          [] ph = <<"FWQUESTION">> -> <<"?">>
          [] OTHER -> <<"ELLIPSIS">>]

\* JapaneseG2P._post_replace_phoneme
post_replace_phoneme(ph) == IF ph \in DOMAIN rep_map THEN rep_map[ph] ELSE ph

\* The linguistic front end, pyopenjtalk.make_label(run_frontend(text)): a
\* stand-in that answers a silence label, one phone label per character and
\* a closing silence label.
FrontEndPhone(ch) ==
    CASE ch = "KANA" -> <<"a">>
      [] ch = "KANJI" -> <<"k">>
      [] OTHER -> <<"e">>

FrontEndLabels(segment) ==
    LET sil == [p3 |-> SIL, a1 |-> NoMatch, a2 |-> NoMatch, a3 |-> NoMatch,
                f1 |-> NoMatch, e3 |-> NoMatch]
    IN  <<sil>>
        \o [i \in 1..Len(segment) |->
               [p3 |-> FrontEndPhone(segment[i]), a1 |-> NoMatch,
                a2 |-> NoMatch, a3 |-> NoMatch, f1 |-> NoMatch,
                e3 |-> NoMatch]]
        \o <<sil>>

\* pyopenjtalk.g2p(segment).split(" "): a stand-in, one phone per character
FrontEndPlainPhones(segment) ==
    [i \in 1..Len(segment) |-> FrontEndPhone(segment[i])]

\* pypinyin.pinyin(text, style=TONE3, neutral_tone_with_five=True): a
\* stand-in that reads every ideograph as "ri4" and answers every other
\* character unchanged
PinyinSyllables(text) ==
    [i \in 1..Len(text) |->
        IF text[i] \in ChineseChars THEN <<"r", "i", "4">> ELSE <<text[i]>>]

ToneDigits == {"1", "2", "3", "4", "5"}

RECURSIVE rstrip_tone(_)
\* syllable_with_tone.rstrip('12345')
rstrip_tone(s) ==
    IF s # <<>> /\ s[Len(s)] \in ToneDigits
    THEN rstrip_tone(SubSeq(s, 1, Len(s) - 1)) ELSE s

\* pypinyin's get_initials(syllable, strict=False): a stand-in with the
\* initials r, n, h
get_initials(syllable) ==
    IF syllable # <<>> /\ syllable[1] \in {"r", "n", "h"}
    THEN <<syllable[1]>> ELSE <<>>

\* pypinyin's get_finals(syllable, strict=False): what follows the initial
get_finals(syllable) ==
    SubSeq(syllable, Len(get_initials(syllable)) + 1, Len(syllable))

\* the symbols of one syllable: the initial, then the final with its tone
SyllablePhonemes(syllable_with_tone) ==
    LET syllable == rstrip_tone(syllable_with_tone)
        rest == SubSeq(syllable_with_tone, Len(syllable) + 1,
                       Len(syllable_with_tone))
        tone == IF rest = <<>> THEN <<"5">> ELSE rest
        initial == get_initials(syllable)
        final == get_finals(syllable)
    IN  (IF initial # <<>> THEN <<initial>> ELSE <<>>)
        \o (IF final # <<>> THEN <<final \o tone>> ELSE <<>>)

RECURSIVE PinyinPhonemes(_)
PinyinPhonemes(pinyins) ==
    IF pinyins = <<>> THEN <<>>
    ELSE SyllablePhonemes(Head(pinyins)) \o PinyinPhonemes(Tail(pinyins))

\* JapaneseG2P._chinese_g2p
chinese_g2p(text) == PinyinPhonemes(PinyinSyllables(text))

\* phones[1:-1]
DropEnds(s) == SubSeq(s, 2, Len(s) - 1)

RECURSIVE JapanesePhonemes(_, _, _, _)
\* the loop "for i, segment in enumerate(japanese_segments)", from segment i
JapanesePhonemes(segments, marks, with_pros, i) ==
    IF i > Len(segments) THEN <<>>
    ELSE (IF segments[i] # <<>>
          THEN (IF with_pros
                THEN DropEnds(pyopenjtalk_g2p_prosody(FrontEndLabels(segments[i])))
                ELSE FrontEndPlainPhones(segments[i]))
          ELSE <<>>)
         \o (IF i <= Len(marks) /\ strip(<<marks[i]>>) # <<>>
             THEN <<strip(<<marks[i]>>)>> ELSE <<>>)
         \o JapanesePhonemes(segments, marks, with_pros, i + 1)

\* the Japanese branch of JapaneseG2P.g2p
japanese_g2p(text, with_pros) ==
    LET norm_text == text_normalize(text)
        phonemes == JapanesePhonemes(JapaneseSegments(norm_text),
                                     JapaneseMarks(norm_text), with_pros, 1)
    IN  [i \in 1..Len(phonemes) |-> post_replace_phoneme(phonemes[i])]

\* which branch JapaneseG2P.g2p takes
G2PRoute(text) ==
    IF strip(text) = <<>> THEN "blank"
    ELSE IF is_chinese(text) THEN "chinese"
    ELSE "japanese"

\* JapaneseG2P.g2p
JapaneseG2P_g2p(text, with_pros) ==
    CASE G2PRoute(text) = "blank" -> <<>>
      [] G2PRoute(text) = "chinese" -> chinese_g2p(text)
      [] OTHER -> japanese_g2p(text, with_pros)

\* the segments JapaneseG2P.g2p hands to pyopenjtalk, in call order
FrontEndCalls(text) ==
    IF G2PRoute(text) = "japanese"
    THEN SelectSeq(JapaneseSegments(text_normalize(text)), LAMBDA seg : seg # <<>>)
    ELSE <<>>

\* the texts JapaneseG2P.g2p hands to pypinyin, in call order
PinyinCalls(text) == IF G2PRoute(text) = "chinese" THEN <<text>> ELSE <<>>

(***************************************************************************)
(* Chinese/ChineseG2P.py: ChineseG2P.g2p.                                  *)
(***************************************************************************)
\* the characters of _PUNCTUATION_RE
PunctuationChars ==
    {",", ".", "/", "?", "!", "~", "ELLIPSIS", "NAKAGURO", ";", ":", "QUOTE",
     "APOSTROPHE", "NEWLINE", "TAB", " ", "IDEOCOMMA", "FWCOMMA", "FWSTOP",
     "FWBANG", "FWQUESTION", "FWSEMICOLON", "FWCOLON"}

\* the whitespace among them, which segment.strip() removes
PunctuationWhitespace == {" ", "NEWLINE", "TAB"}

RECURSIVE strip_ws_left(_)
strip_ws_left(s) ==
    IF s # <<>> /\ Head(s) \in PunctuationWhitespace
    THEN strip_ws_left(Tail(s)) ELSE s

RECURSIVE strip_ws_right(_)
strip_ws_right(s) ==
    IF s # <<>> /\ s[Len(s)] \in PunctuationWhitespace
    THEN strip_ws_right(SubSeq(s, 1, Len(s) - 1)) ELSE s

RECURSIVE PunctuationSplit(_, _)
\* _PUNCTUATION_RE.split(text): the pieces between the runs of punctuation
\* and, the group capturing, the runs themselves; cur is the piece or run
\* being read
PunctuationSplit(text, cur) ==
    IF text = <<>> THEN <<cur>>
    ELSE IF cur # <<>>
            /\ (Head(text) \in PunctuationChars) # (cur[1] \in PunctuationChars)
         THEN <<cur>> \o PunctuationSplit(Tail(text), <<Head(text)>>)
         ELSE PunctuationSplit(Tail(text), Append(cur, Head(text)))

\* _PUNCTUATION_RE.fullmatch(segment), for a segment of the split
IsPunctuationSegment(segment) == segment[1] \in PunctuationChars

\* ChineseG2P._get_phonemes
get_phonemes(segment) == PinyinPhonemes(PinyinSyllables(segment))

RECURSIVE ChineseSegmentPhonemes(_)
\* the loop "for segment in segments"
ChineseSegmentPhonemes(segments) ==
    IF segments = <<>> THEN <<>>
    ELSE (IF Head(segments) = <<>> THEN <<>>
          ELSE IF IsPunctuationSegment(Head(segments))
          THEN <<strip_ws_right(strip_ws_left(Head(segments)))>>
          ELSE get_phonemes(Head(segments)))
         \o ChineseSegmentPhonemes(Tail(segments))

\* ChineseG2P.g2p
ChineseG2P_g2p(text) ==
    IF strip_ws_right(strip_ws_left(text)) = <<>> THEN <<>>
    ELSE LET result_phonemes ==
                 ChineseSegmentPhonemes(PunctuationSplit(text, <<>>))
             processed ==
                 [i \in 1..Len(result_phonemes) |->
                     post_replace_phoneme(result_phonemes[i])]
         IN  SelectSeq(processed, LAMBDA ph : ph # <<>>)

(***************************************************************************)
(* SymbolsV2 (its source file is not among the sources): the vocabulary,   *)
(* with the reserved symbol UNK, and the ids, each symbol's index in the   *)
(* vocabulary.                                                             *)
(***************************************************************************)
UNK == <<"U", "N", "K">>

symbols_v2 ==
    << <<"!">>, <<",">>, <<".">>, <<"?">>, <<"ELLIPSIS">>, <<"_">>, <<"#">>,
       <<"[">>, <<"]">>, <<"^">>, <<"$">>, UNK, <<"a">>, <<"e">>, <<"k">>,
       <<"r">>, <<"i", "4">> >>

symbol_to_id_v2 ==
    [ph \in Range(symbols_v2) |->
        (CHOOSE i \in 1..Len(symbols_v2) : symbols_v2[i] = ph) - 1]

(***************************************************************************)
(* chinese_to_phones and japanese_to_phones: the symbols to ids.  The      *)
(* result is [ids, error]: error is "KeyError" when a lookup of            *)
(* symbol_to_id_v2 raises.                                                 *)
(***************************************************************************)
\* [symbol_to_id_v2[ph] for ph in valid_phones]
LookupIds(valid_phones) ==
    IF \A i \in 1..Len(valid_phones) : valid_phones[i] \in DOMAIN symbol_to_id_v2
    THEN [ids |-> [i \in 1..Len(valid_phones) |-> symbol_to_id_v2[valid_phones[i]]],
          error |-> "none"]
    ELSE [ids |-> <<>>, error |-> "KeyError"]

\* a mutant of the substitution: a symbol outside the vocabulary is dropped
ChineseEncodeDropUnknown(phs) ==
    LookupIds(SelectSeq(phs, LAMBDA ph : ph \in DOMAIN symbol_to_id_v2))

\* chinese_to_phones, after the phonemizer: valid_phones, then ids
ChineseEncode(phs) ==
    LookupIds([i \in 1..Len(phs) |->
                  IF phs[i] \in DOMAIN symbol_to_id_v2 THEN phs[i] ELSE UNK])

\* japanese_to_phones, after the phonemizer: valid_phones, then ids
JapaneseEncode(phs) ==
    LookupIds([i \in 1..Len(phs) |->
                  IF phs[i] \in DOMAIN symbol_to_id_v2 THEN phs[i] ELSE UNK])

chinese_to_phones(text) == ChineseEncode(ChineseG2P_g2p(text))

japanese_to_phones(text) == JapaneseEncode(JapaneseG2P_g2p(text, TRUE))

\* Bound: the length of an input text of the phonemizers.
MaxChars == 4

G2PChars == {"KANA", "KANJI", "A", "a", "%", "!", "FWCOMMA", " "}

\* the texts of at most max characters
G2PInputs(max) == SeqsUpTo(G2PChars, max)

InitSplit ==
    /\ long_text \in SplitInputs(MaxPieces)
    /\ raw_sentences = <<>>
    /\ final_sentences = <<>>
    /\ split_pc = "start"
    /\ IdleProsody /\ IdleG2P /\ IdleEnc /\ IdleCache

SplitChineseText ==
    /\ split_pc = "start"
    /\ raw_sentences' = (IF long_text = <<>> THEN <<>>
                         ELSE split_raw_sentences(long_text))
    /\ final_sentences' = split_chinese_text(long_text)
    /\ split_pc' = "done"
    /\ UNCHANGED <<long_text, varsProsody, varsG2P, varsEnc, varsCache>>

NextSplit == SplitChineseText

SpecSplit == InitSplit /\ [][NextSplit]_vars

(***************************************************************************)
(* JapaneseG2P.g2p on every bounded text.                                  *)
(***************************************************************************)
InitG2P ==
    /\ g2p_text \in G2PInputs(MaxChars)
    /\ with_prosody \in BOOLEAN
    /\ processed_phonemes = <<>>
    /\ frontend_calls = <<>>
    /\ pinyin_calls = <<>>
    /\ g2p_pc = "start"
    /\ IdleSplit /\ IdleProsody /\ IdleEnc /\ IdleCache

G2P ==
    /\ g2p_pc = "start"
    /\ processed_phonemes' = JapaneseG2P_g2p(g2p_text, with_prosody)
    /\ frontend_calls' = FrontEndCalls(g2p_text)
    /\ pinyin_calls' = PinyinCalls(g2p_text)
    /\ g2p_pc' = "done"
    /\ UNCHANGED <<g2p_text, with_prosody, varsSplit, varsProsody, varsEnc, varsCache>>

NextG2P == G2P

SpecG2P == InitG2P /\ [][NextG2P]_vars

(***************************************************************************)
(* chinese_to_phones and japanese_to_phones on every bounded text.         *)
(***************************************************************************)
InitEnc ==
    /\ enc_text \in G2PInputs(MaxChars)
    /\ enc_phones = <<>>
    /\ enc_ids = <<>>
    /\ enc_error = "none"
    /\ enc_pc = "start"
    /\ IdleSplit /\ IdleProsody /\ IdleG2P /\ IdleCache

ChineseToPhones ==
    /\ enc_pc = "start"
    /\ enc_phones' = ChineseG2P_g2p(enc_text)
    /\ enc_ids' = chinese_to_phones(enc_text).ids
    /\ enc_error' = chinese_to_phones(enc_text).error
    /\ enc_pc' = "chinese_done"
    /\ UNCHANGED <<enc_text, varsSplit, varsProsody, varsG2P, varsCache>>

JapaneseToPhones ==
    /\ enc_pc = "start"
    /\ enc_phones' = JapaneseG2P_g2p(enc_text, TRUE)
    /\ enc_ids' = japanese_to_phones(enc_text).ids
    /\ enc_error' = japanese_to_phones(enc_text).error
    /\ enc_pc' = "japanese_done"
    /\ UNCHANGED <<enc_text, varsSplit, varsProsody, varsG2P, varsCache>>

NextEnc == ChineseToPhones \/ JapaneseToPhones

SpecEnc == InitEnc /\ [][NextEnc]_vars

(***************************************************************************)
(* Audio/ReferenceAudio.py.                                                *)
(* prompt_cache is the LRUCacheDict, oldest use first: a sequence of       *)
(* [key, obj].  heap maps an object's id to its attributes; an attribute   *)
(* that is not set, or holds None, is <<>>, and a set one is <<value>>.    *)
(* An object's id is <<key, number>>; a numpy buffer returned by a         *)
(* collaborator is a number: two buffers held by one object (one after the *)
(* other) are the same buffer iff their numbers are equal.                 *)
(***************************************************************************)
\* capacity=int(os.getenv('Max_Cached_Reference_Audio', '10')): the capacity
\* of the cache, set by the environment; here the environment sets 2.
Capacity == 2

\* the audio paths: one more than the cache holds
Keys == 1..(Capacity + 1)

CacheTexts == {<<"KANA">>, <<"KANJI", "!">>}

Languages == {"ja", "zh"}

\* the collaborator that raises during a request, if any: the phonemizer,
\* the text-embedding model, the audio loader, the audio encoder
Failures == {"none", "g2p", "bert", "load_audio", "cn_hubert"}

Unset == <<>>

\* an object fresh from object.__new__: no attribute is set
BlankObject ==
    [text |-> Unset, language |-> Unset, phonemes_seq |-> Unset,
     text_bert |-> Unset, audio_32k |-> Unset, ssl_content |-> Unset,
     initialized |-> FALSE]

(* LRUCacheDict (Utils/Utils.py, not among the sources): a dict in order   *)
(* of use, a read or a write moving the key to the recent end, a write     *)
(* that exceeds the capacity dropping the least recently used key.         *)
LRUContains(cache, key) == \E i \in 1..Len(cache) : cache[i].key = key

LRUPeek(cache, key) ==
    cache[CHOOSE i \in 1..Len(cache) : cache[i].key = key].obj

LRUMoveToEnd(cache, key) ==
    SelectSeq(cache, LAMBDA e : e.key # key)
    \o SelectSeq(cache, LAMBDA e : e.key = key)

\* __getitem__: the cache after the read
LRUGetItem(cache, key) == LRUMoveToEnd(cache, key)

\* __setitem__: the cache after the write
LRUSetItem(cache, key, obj) ==
    LET written == SelectSeq(cache, LAMBDA e : e.key # key)
                   \o <<[key |-> key, obj |-> obj]>>
    IN  IF Len(written) > Capacity THEN Tail(written) ELSE written

\* the allocator: a number that none of the live things in used has
FreshId(used) == CHOOSE i \in 1..(Cardinality(used) + 1) : i \notin used

\* object.__new__: the id of a new object, one that no live object has
FreshObject(h, key) == <<key, FreshId({o[2] : o \in {x \in DOMAIN h : x[1] = key}})>>

\* the phonemizer and the encoder on the texts of the requests
TextToPhones ==
    [language \in Languages, text \in CacheTexts |->
        IF language = "zh" THEN chinese_to_phones(text)
        ELSE japanese_to_phones(text)]

\* np.zeros((rows, BERT_FEATURE_DIM)): a row is <<text, token>>, a zero
\* row <<<<>>, 0>>
ZeroRows(rows) == [i \in 1..rows |-> <<<<>>, 0>>]

\* the tokenizer of the text-embedding model: a stand-in, one token per
\* character between [CLS] and [SEP]
TokenCount(text) == Len(text) + 2

\* ReferenceAudio._extract_bert_features: the model's rows, cut or padded
\* with zero rows to target_len rows
extract_bert_features(text, target_len) ==
    [i \in 1..target_len |->
        IF i <= TokenCount(text) THEN <<text, i>> ELSE <<<<>>, 0>>]

\* ReferenceAudio.set_text: [entry, raised, calls], the object after the
\* call, whether the call raised, the collaborators it called
SetText(e, prompt_text, language, fail) ==
    LET e1 == [e EXCEPT !.text = <<prompt_text>>, !.language = <<language>>]
        ph == TextToPhones[language, prompt_text]
        e2 == [e1 EXCEPT !.phonemes_seq = <<ph.ids>>]
    IN  IF fail = "g2p" \/ ph.error # "none"
        THEN [entry |-> e1, raised |-> TRUE, calls |-> {"g2p"}]
        ELSE IF language = "zh"
        THEN IF fail = "bert"
             THEN [entry |-> e2, raised |-> TRUE, calls |-> {"g2p", "bert"}]
             ELSE [entry |-> [e2 EXCEPT !.text_bert =
                                 <<extract_bert_features(prompt_text, Len(ph.ids))>>],
                   raised |-> FALSE, calls |-> {"g2p", "bert"}]
        ELSE [entry |-> [e2 EXCEPT !.text_bert = <<ZeroRows(Len(ph.ids))>>],
              raised |-> FALSE, calls |-> {"g2p"}]

\* the only element of a one-element set: The({f(x) : x \in {e}}) is f(e)
\* with e evaluated once
The(S) == CHOOSE x \in S : TRUE

\* __new__ when the key is cached, before the read is recorded: set_text
\* on the cached instance when the text or the language differs
NewHit(cache, h, instance, prompt_text, language, fail) ==
    The({[cache |-> cache,
          heap |-> [h EXCEPT ![instance] = st.entry],
          instance |-> instance, hit |-> TRUE, raised |-> st.raised,
          calls |-> st.calls, evicted |-> 0] :
         st \in {IF h[instance].text # <<prompt_text>>
                    \/ h[instance].language # <<language>>
                 THEN SetText(h[instance], prompt_text, language, fail)
                 ELSE [entry |-> h[instance], raised |-> FALSE, calls |-> {}]}})

\* __new__ when the key is not cached: a new object is written to the cache
NewMiss(cache, h, instance, prompt_wav) ==
    The({[cache |-> written,
          heap |-> [o \in {written[i].obj : i \in 1..Len(written)} |->
                       IF o = instance THEN BlankObject ELSE h[o]],
          instance |-> instance, hit |-> FALSE, raised |-> FALSE,
          calls |-> {},
          evicted |-> LET gone == {cache[i].key : i \in 1..Len(cache)}
                                  \ {written[i].key : i \in 1..Len(written)}
                      IN  IF gone = {} THEN 0 ELSE The(gone)] :
         written \in {LRUSetItem(cache, prompt_wav, instance)}})

\* a mutant of __new__: the hit reads the entry without going through the
\* cache's __getitem__, so the use is not recorded
NewWithoutRead(cache, h, prompt_wav, prompt_text, language, fail) ==
    IF LRUContains(cache, prompt_wav)
    THEN NewHit(cache, h, LRUPeek(cache, prompt_wav), prompt_text, language,
                fail)
    ELSE NewMiss(cache, h, FreshObject(h, prompt_wav), prompt_wav)

\* ReferenceAudio.__new__: the cache and the heap after the call, the
\* instance it returns (when it does not raise), whether the key was cached
New(cache, h, prompt_wav, prompt_text, language, fail) ==
    IF LRUContains(cache, prompt_wav)
    THEN LET made == NewHit(cache, h, LRUPeek(cache, prompt_wav), prompt_text,
                            language, fail)
         IN  [made EXCEPT !.cache = LRUGetItem(cache, prompt_wav)]
    ELSE NewMiss(cache, h, FreshObject(h, prompt_wav), prompt_wav)

\* a mutant of the guard of __init__: an initialized object is set up again
IsInitializedNever(e) == FALSE

\* hasattr(self, '_initialized')
IsInitialized(e) == e.initialized

\* __init__ after set_text returned st: the audio loader, the resampler,
\* the audio encoder
InitAudio(e, st, fail) ==
    IF st.raised THEN st
    ELSE IF fail = "load_audio"
    THEN [entry |-> st.entry, raised |-> TRUE,
          calls |-> st.calls \cup {"load_audio"}]
    ELSE IF fail = "cn_hubert"
    THEN [entry |-> [st.entry EXCEPT !.audio_32k = <<FreshId(Range(e.audio_32k))>>],
          raised |-> TRUE,
          calls |-> st.calls \cup {"load_audio", "cn_hubert"}]
    ELSE [entry |-> [st.entry EXCEPT
                        !.audio_32k = <<FreshId(Range(e.audio_32k))>>,
                        !.ssl_content = <<FreshId(Range(e.ssl_content))>>,
                        !.initialized = TRUE],
          raised |-> FALSE,
          calls |-> st.calls \cup {"load_audio", "cn_hubert"}]

\* ReferenceAudio.__init__ on object e
InitObject(e, prompt_text, language, fail) ==
    IF IsInitialized(e)
    THEN [entry |-> e, raised |-> FALSE, calls |-> {}]
    ELSE The({InitAudio(e, st, fail) :
              st \in {SetText([e EXCEPT !.text = <<prompt_text>>,
                                        !.phonemes_seq = Unset,
                                        !.text_bert = Unset,
                                        !.language = <<language>>],
                               prompt_text, language, fail)}})

\* the order of last use of the audio paths requested so far, oldest first
Touch(order, key) == SelectSeq(order, LAMBDA k : k # key) \o <<key>>

InitCache ==
    /\ prompt_cache = <<>>
    /\ heap = <<>>
    /\ use_order = <<>>
    /\ failures = 0
    /\ req = NoRequest
    /\ IdleSplit /\ IdleProsody /\ IdleG2P /\ IdleEnc

\* Bound: the number of requests of a run in which a collaborator raises.
MaxFailures == 1

\* ReferenceAudio(prompt_wav, prompt_text, language): __new__, then, when
\* __new__ returns, __init__ on the instance.  fail is the collaborator that
\* raises when the request calls it; a request that does not call it is the
\* request with no failure.  The audio paths are interchangeable: a path not
\* requested before is the next one unused.
Request(prompt_wav, prompt_text, language, fail) ==
    /\ prompt_wav <= Len(use_order) + 1
    /\ fail # "none" => failures < MaxFailures
    /\ \E made \in {New(prompt_cache, heap, prompt_wav, prompt_text, language, fail)} :
       \E init \in {IF made.raised THEN made
                    ELSE InitObject(made.heap[made.instance], prompt_text,
                                    language, fail)} :
        /\ fail # "none" => init.raised
        /\ failures' = failures + (IF init.raised THEN 1 ELSE 0)
        /\ prompt_cache' = made.cache
        /\ heap' = IF made.raised THEN made.heap
                   ELSE [made.heap EXCEPT ![made.instance] = init.entry]
        /\ use_order' = Touch(use_order, prompt_wav)
        /\ req' = [op |-> "request", key |-> prompt_wav, text |-> prompt_text,
                   language |-> language,
                   raised |-> IF init.raised THEN fail ELSE "none",
                   hit |-> made.hit,
                   returned |-> IF init.raised THEN <<>> ELSE made.instance,
                   calls |-> IF made.raised THEN made.calls
                             ELSE made.calls \cup init.calls,
                   evicted |-> made.evicted]
        /\ UNCHANGED <<varsSplit, varsProsody, varsG2P, varsEnc>>

\* ReferenceAudio.clear_cache
ClearCache ==
    /\ prompt_cache # <<>>
    /\ prompt_cache' = <<>>
    /\ heap' = <<>>
    /\ use_order' = <<>>
    /\ failures' = failures
    /\ req' = [NoRequest EXCEPT !.op = "clear"]
    /\ UNCHANGED <<varsSplit, varsProsody, varsG2P, varsEnc>>

NextCache ==
    \/ \E k \in Keys, t \in CacheTexts, l \in Languages, f \in Failures :
           Request(k, t, l, f)
    \/ ClearCache

SpecCache == InitCache /\ [][NextCache]_vars

(***************************************************************************)
(* The claims.                                                             *)
(***************************************************************************)
CachedKeys(cache) == {cache[i].key : i \in 1..Len(cache)}

\* the last step was a request for a key the cache held before it
IsHit == req'.op = "request" /\ LRUContains(prompt_cache, req'.key)

\* the object the cache held for the requested key before the step
HitObject == LRUPeek(prompt_cache, req'.key)

\* the request asks for another text or another language than the entry has
HitDiffers ==
    \/ heap[HitObject].text # <<req'.text>>
    \/ heap[HitObject].language # <<req'.language>>

\* C1: when a key already in the cache is requested with a different text or
\* language and the phonemizer or the text-embedding model raises during
\* set_text, the cached entry keeps its previous text, language, phoneme ids
\* and semantic features.
C1_UpdateAllOrNothing ==
    [][(IsHit /\ HitDiffers /\ req'.raised \in {"g2p", "bert"})
       => /\ LRUContains(prompt_cache', req'.key)
          /\ LRUPeek(prompt_cache', req'.key) = HitObject
          /\ heap'[HitObject].text = heap[HitObject].text
          /\ heap'[HitObject].language = heap[HitObject].language
          /\ heap'[HitObject].phonemes_seq = heap[HitObject].phonemes_seq
          /\ heap'[HitObject].text_bert = heap[HitObject].text_bert]_vars

\* the semantic features of a text in a language, for its phoneme ids: one
\* row per id; zero rows for Japanese; for Chinese the model's rows of the
\* text, then zero rows
FeaturesFit(bert, text, language, ids) ==
    /\ Len(bert) = Len(ids)
    /\ \A i \in 1..Len(bert) :
           bert[i] = IF language = "zh" /\ i <= TokenCount(text)
                     THEN <<text, i>> ELSE <<<<>>, 0>>

\* C2: a request for a cached key whose entry an earlier request returned
\* (it is initialized), with another text or language, keeps the entry
\* object, its waveform buffer and its audio-embedding buffer, calls neither
\* the audio loader nor the audio encoder, and, when it returns, returns
\* that object with its text, language, phoneme ids and semantic features
\* replaced by those of the request.
C2_TextOnlyMutation ==
    [][(IsHit /\ heap[HitObject].initialized /\ HitDiffers)
       => /\ LRUContains(prompt_cache', req'.key)
          /\ LRUPeek(prompt_cache', req'.key) = HitObject
          /\ heap'[HitObject].audio_32k = heap[HitObject].audio_32k
          /\ heap'[HitObject].ssl_content = heap[HitObject].ssl_content
          /\ heap'[HitObject].initialized
          /\ req'.calls \cap {"load_audio", "cn_hubert"} = {}
          /\ req'.returned \in {<<>>, HitObject}
          /\ (req'.raised = "none"
              => /\ req'.returned = HitObject
                 /\ "g2p" \in req'.calls
                 /\ heap'[HitObject].text = <<req'.text>>
                 /\ heap'[HitObject].language = <<req'.language>>
                 /\ heap'[HitObject].phonemes_seq =
                        <<TextToPhones[req'.language, req'.text].ids>>
                 /\ heap'[HitObject].text_bert # Unset
                 /\ FeaturesFit(heap'[HitObject].text_bert[1], req'.text,
                                req'.language,
                                heap'[HitObject].phonemes_seq[1]))]_vars

\* C2's case: an initialized entry was asked for with another text or
\* language, and the request returned it after a text-only update
C2_Witness ==
    /\ req.op = "request" /\ req.hit /\ req.raised = "none"
    /\ req.calls \in {{"g2p"}, {"g2p", "bert"}}
    /\ req.returned = LRUPeek(prompt_cache, req.key)
    /\ heap[req.returned].initialized
    /\ heap[req.returned].ssl_content # Unset

\* C3: a request for a cached key with the text and the language its entry
\* has returns the cached object, changes no field of it, and calls no
\* collaborator.
C3_SameRequestNoRecomputation ==
    [][(IsHit /\ ~HitDiffers)
       => /\ req'.returned = HitObject
          /\ LRUContains(prompt_cache', req'.key)
          /\ LRUPeek(prompt_cache', req'.key) = HitObject
          /\ heap'[HitObject] = heap[HitObject]
          /\ req'.calls = {}]_vars

\* the least recently requested of the keys the cache holds
LeastRecentlyUsed(order, cache) ==
    order[CHOOSE i \in 1..Len(order) :
              /\ order[i] \in CachedKeys(cache)
              /\ \A j \in 1..(i - 1) : order[j] \notin CachedKeys(cache)]

\* C4: the cache never holds more than Capacity entries; a request for a key
\* it does not hold, made when it holds Capacity entries, removes exactly
\* the least recently requested key and adds the requested one, leaving the
\* other entries as they were; any other request removes nothing.
C4_Eviction ==
    [][/\ Len(prompt_cache') <= Capacity
       /\ Cardinality(CachedKeys(prompt_cache')) = Len(prompt_cache')
       /\ req'.op = "request"
          => /\ CachedKeys(prompt_cache') =
                    (CachedKeys(prompt_cache) \cup {req'.key})
                    \ (IF ~LRUContains(prompt_cache, req'.key)
                          /\ Len(prompt_cache) = Capacity
                       THEN {LeastRecentlyUsed(use_order, prompt_cache)}
                       ELSE {})
             /\ \A k \in CachedKeys(prompt_cache') \ {req'.key} :
                    /\ LRUPeek(prompt_cache', k) = LRUPeek(prompt_cache, k)
                    /\ heap'[LRUPeek(prompt_cache', k)]
                           = heap[LRUPeek(prompt_cache, k)]]_vars

\* C4's case: a request for an uncached key found the cache full and evicted
\* the second key inserted, the first having been requested again since
C4_Witness ==
    /\ req.op = "request" /\ ~req.hit
    /\ Len(prompt_cache) = Capacity
    /\ req.evicted = 2
    /\ LRUContains(prompt_cache, 1)
    /\ req.key = Capacity + 1

\* an entry with phoneme ids, a semantic feature row per id, an audio
\* embedding, and the initialized flag
FullyInitialized(e) ==
    /\ e.initialized
    /\ e.phonemes_seq # Unset
    /\ e.text_bert # Unset
    /\ Len(e.text_bert[1]) = Len(e.phonemes_seq[1])
    /\ e.ssl_content # Unset

\* C10: every entry the cache holds is fully initialized, and a creation
\* that failed leaves its key out of the cache.
C10_CachedEntriesInitialized ==
    /\ \A i \in 1..Len(prompt_cache) : FullyInitialized(heap[prompt_cache[i].obj])
    /\ (req.op = "request" /\ ~req.hit /\ req.raised # "none")
       => ~LRUContains(prompt_cache, req.key)

(***************************************************************************)
(* split_chinese_text                                                      *)
(***************************************************************************)
\* C5, as stated: the raw chunks (the chunks before the merge), and the
\* chunks returned, concatenate to the original text, and none is empty.
C5_Lossless ==
    split_pc = "done"
    => /\ Flatten(raw_sentences) = long_text
       /\ Flatten(final_sentences) = long_text
       /\ \A i \in 1..Len(raw_sentences) : raw_sentences[i] # <<>>
       /\ \A i \in 1..Len(final_sentences) : final_sentences[i] # <<>>

\* character i of the text is whitespace at the start or the end of its
\* piece, a piece ending with a terminator or with the text
IsEdgeWhitespace(text, i) ==
    /\ text[i] \in Whitespace
    /\ \/ \A j \in 1..(i - 1) :
              text[j] \in Whitespace
              \/ \E m \in j..(i - 1) : text[m] \in SENTENCE_TERMINATORS
       \/ \A j \in (i + 1)..Len(text) :
              text[j] \in Whitespace
              \/ \E m \in i..(j - 1) : text[m] \in SENTENCE_TERMINATORS

RECURSIVE WithoutEdgeWhitespace(_, _)
\* the text without the whitespace at the edges of its pieces, from
\* character i on
WithoutEdgeWhitespace(text, i) ==
    IF i > Len(text) THEN <<>>
    ELSE (IF IsEdgeWhitespace(text, i) THEN <<>> ELSE <<text[i]>>)
         \o WithoutEdgeWhitespace(text, i + 1)

\* C5, amended: the raw chunks, and the chunks returned, concatenate to the
\* original text without the whitespace at the start and the end of each
\* terminator-delimited piece, and none is empty.
C5_LosslessUpToStrip ==
    split_pc = "done"
    => /\ Flatten(raw_sentences) = WithoutEdgeWhitespace(long_text, 1)
       /\ Flatten(final_sentences) = WithoutEdgeWhitespace(long_text, 1)
       /\ \A i \in 1..Len(raw_sentences) : raw_sentences[i] # <<>>
       /\ \A i \in 1..Len(final_sentences) : final_sentences[i] # <<>>

\* C5's case: a text of several chunks that keeps whitespace inside a chunk
\* and loses whitespace at the edge of one
C5_Witness ==
    /\ split_pc = "done"
    /\ Len(raw_sentences) >= 2
    /\ Flatten(raw_sentences) # long_text
    /\ \E i \in 1..Len(raw_sentences) : " " \in Range(raw_sentences[i])

\* the raw chunks that start an output chunk: the first, and every one of
\* at least MIN_SENTENCE_LENGTH valid characters
ChunkStarts(raw) ==
    {i \in 1..Len(raw) : i = 1 \/ get_valid_text_length(raw[i]) >= MIN_SENTENCE_LENGTH}

\* C9: the output chunks are, in order, the runs of raw chunks that go from
\* one start to just before the next: a raw chunk of fewer than
\* MIN_SENTENCE_LENGTH valid characters is appended to the output chunk before
\* it unless it is the first; so every output chunk but the first has at
\* least MIN_SENTENCE_LENGTH valid characters.
C9_ShortChunkMerge ==
    split_pc = "done"
    => /\ Len(final_sentences) = Cardinality(ChunkStarts(raw_sentences))
       /\ \A i \in ChunkStarts(raw_sentences) :
              LET j == Cardinality({k \in ChunkStarts(raw_sentences) : k <= i})
                  later == {k \in ChunkStarts(raw_sentences) : k > i}
                  last == IF later = {} THEN Len(raw_sentences)
                          ELSE (CHOOSE k \in later : \A m \in later : k <= m) - 1
              IN  final_sentences[j] = Flatten(SubSeq(raw_sentences, i, last))
       /\ \A j \in 2..Len(final_sentences) :
              get_valid_text_length(final_sentences[j]) >= MIN_SENTENCE_LENGTH

\* C9's case: a short first chunk that stands alone, a long chunk after it,
\* and a short chunk merged into the long one
C9_Witness ==
    /\ split_pc = "done"
    /\ Len(final_sentences) = 2
    /\ Len(raw_sentences) = 3
    /\ get_valid_text_length(final_sentences[1]) < MIN_SENTENCE_LENGTH
    /\ get_valid_text_length(raw_sentences[3]) \in 1..(MIN_SENTENCE_LENGTH - 1)

(***************************************************************************)
(* chinese_to_phones, japanese_to_phones                                   *)
(***************************************************************************)
\* the id of a symbol of the vocabulary
IdOf(ph) == (CHOOSE i \in 1..Len(symbols_v2) : symbols_v2[i] = ph) - 1

\* C6: the ids are as many as the phonemizer's symbols; id i is the id of
\* symbol i when the vocabulary has it and the id of UNK otherwise; no
\* exception is raised.
C6_EncodingOneToOne ==
    enc_pc \in {"chinese_done", "japanese_done"}
    => /\ enc_error = "none"
       /\ Len(enc_ids) = Len(enc_phones)
       /\ \A i \in 1..Len(enc_phones) :
              enc_ids[i] = IF enc_phones[i] \in Range(symbols_v2)
                           THEN IdOf(enc_phones[i]) ELSE IdOf(UNK)

\* C6's case: the Chinese phonemizer gave symbols of the vocabulary and
\* symbols outside it
C6_Witness ==
    /\ enc_pc = "chinese_done"
    /\ \E i \in 1..Len(enc_phones) : enc_phones[i] \notin Range(symbols_v2)
    /\ \E i \in 1..Len(enc_phones) :
           enc_phones[i] \in Range(symbols_v2) /\ enc_phones[i] # UNK
    /\ Len(enc_ids) = Len(enc_phones)

(***************************************************************************)
(* JapaneseG2P                                                             *)
(***************************************************************************)
\* the symbols the last step of the label loop appended
Appended == SubSeq(phones', Len(phones) + 1, Len(phones'))

\* C7: a step of the label loop appends a prosody marker only if every
\* feature the marker's condition reads had a match: a3 and the next
\* label's a2 for "#"; a1, a2, f1 and the next label's a2 for "]"; a2 and
\* the next label's a2 for "[".
C7_AbsentFeatureNotMet ==
    [][(n' = n + 1 /\ Len(Appended) = 2)
       => LET lab == labels[n + 1]
              next_a2 == IF n + 2 <= Len(labels) THEN labels[n + 2].a2
                         ELSE NoMatch
          IN  /\ Appended[2] = <<"#">>
                 => lab.a3 # NoMatch /\ next_a2 # NoMatch
              /\ Appended[2] = <<"]">>
                 => /\ lab.a1 # NoMatch /\ lab.a2 # NoMatch
                    /\ lab.f1 # NoMatch /\ next_a2 # NoMatch
              /\ Appended[2] = <<"[">>
                 => lab.a2 # NoMatch /\ next_a2 # NoMatch]_vars

\* C8: for a text that is not blank, g2p calls no romanization engine, hands
\* every content segment of the normalized text to the linguistic front
\* end, and returns the post-normalized interleaving of the segments'
\* phones and the marks.
C8_AlwaysJapaneseRoute ==
    (g2p_pc = "done" /\ strip(g2p_text) # <<>>)
    => /\ pinyin_calls = <<>>
       /\ frontend_calls =
              SelectSeq(JapaneseSegments(text_normalize(g2p_text)),
                        LAMBDA seg : seg # <<>>)
       /\ processed_phonemes = japanese_g2p(g2p_text, with_prosody)

====
